---- MODULE Spec2Model ----
(***************************************************************************)
(* Model of the service worker sw.js of Matteo's Declic: strategy          *)
(* selection, the cache-first and network-first executors, the fetch       *)
(* dispatcher, the install / activate lifecycle handlers, the message      *)
(* handler, the background synchronisation and the periodic sweep          *)
(* (cleanupCaches and getCacheStats under setInterval).                    *)
(*                                                                         *)
(* Strings the code inspects (URLs, path names, generation names) are      *)
(* sequences: a path name is a sequence of characters, a URL is            *)
(* <<scheme, "://", host>> followed by the characters of its path, and a   *)
(* generation name is a sequence of its dash-separated pieces.             *)
(***************************************************************************)
EXTENDS Integers, Sequences, FiniteSets, TLC

VARIABLES
    caches,        \* CacheStorage: generations in creation order, each [name, entries]
    phase,         \* lifecycle of this worker version, as the host drives it
    installResult, \* settlement of the promise given to install's waitUntil
    installLog,    \* install: "none", "then" (line 41) or "catch" (line 44)
    skipWaiting,   \* self.skipWaiting() has been called
    apc,           \* activate: progress of the pruning branch
    actNames,      \* activate: the stale names the deletions are issued for
    claimState,    \* activate: self.clients.claim(): "none", "pending", "done", "failed"
    actResult,     \* activate: "none", "then" (line 71) or "catch" (line 73)
    fpc,           \* position of the fetch handler in flight
    request,       \* event.request of the fetch handler in flight
    strategy,      \* getCacheStrategy(event.request), "none" when not computed
    netResponse,   \* the network response the executor holds
    execOut,       \* how the executor (cacheFirst / networkFirst) settled
    out,           \* what the fetch handler handed to the host
    io,            \* the handler in flight: cache reads, cache writes and network fetches
                   \* it called, and cache-store calls of its that were rejected
    pendingPuts,   \* cache.put calls issued by the executors and not yet settled
    spc,           \* position of performBackgroundSync
    syncKeys,      \* performBackgroundSync: `requests`, the enumeration taken at line 249
    syncLive,      \* performBackgroundSync: its `cache` handle is still the stored generation
    syncResult,    \* performBackgroundSync: "none", "done" (line 261) or "catch" (line 263)
    cpc,           \* position of cleanupCaches
    oldCaches,     \* cleanupCaches: `oldCaches`, the names filtered at line 417
    cleanupPending,\* cleanupCaches: the names whose caches.delete has not settled
    cleanupResult, \* cleanupCaches: "none", "done" (line 425) or "catch" (line 427)
    gpc,           \* position of getCacheStats
    statsNames,    \* getCacheStats: the names of `cacheNames` the loop has still to visit
    stats,         \* getCacheStats: `stats`, the [name, count] pairs recorded so far
    budget         \* events the host still delivers

vars == <<caches, phase, installResult, installLog, skipWaiting, apc, actNames, claimState,
          actResult, fpc, request, strategy, netResponse, execOut, out, io,
          pendingPuts, spc, syncKeys, syncLive, syncResult, cpc, oldCaches,
          cleanupPending, cleanupResult, gpc, statsNames, stats, budget>>

lifecycleVars == <<phase, installResult, installLog, skipWaiting, apc, actNames, claimState,
                   actResult>>
fetchVars == <<fpc, request, strategy, netResponse, execOut, out, io>>
syncVars == <<spc, syncKeys, syncLive, syncResult>>
sweepVars == <<cpc, oldCaches, cleanupPending, cleanupResult, gpc, statsNames, stats>>

-----------------------------------------------------------------------------
(* Strings *)

StartsWith(s, p) == Len(p) <= Len(s) /\ SubSeq(s, 1, Len(p)) = p

EndsWith(s, p) == Len(p) <= Len(s) /\ SubSeq(s, Len(s) - Len(p) + 1, Len(s)) = p

Includes(s, p) == \E i \in 1..(Len(s) - Len(p) + 1) : SubSeq(s, i, i + Len(p) - 1) = p

\* Array.prototype.includes
ArrayIncludes(a, x) == \E i \in 1..Len(a) : a[i] = x

Range(s) == {s[i] : i \in 1..Len(s)}

-----------------------------------------------------------------------------
(* Program constants: sw.js lines 1-16 *)

APP_PREFIX == <<"matteo-declic-">>
VERSION_TAG == <<"v1.0.0">>

CACHE_NAME == <<"matteo-declic-", "v1.0.0">>
STATIC_CACHE == <<"matteo-declic-", "static-", "v1.0.0">>
DYNAMIC_CACHE == <<"matteo-declic-", "dynamic-", "v1.0.0">>

W_index == <<"i", "n", "d", "e", "x">>
W_manifest == <<"m", "a", "n", "i", "f", "e", "s", "t">>
W_icon == <<"i", "c", "o", "n">>
W_iconDash == <<"i", "c", "o", "n", "-">>
W_192 == <<"1", "9", "2", "x", "1", "9", "2">>
W_512 == <<"5", "1", "2", "x", "5", "1", "2">>
W_about == <<"a", "b", "o", "u", "t">>
W_app == <<"a", "p", "p">>
W_api == <<"a", "p", "i">>
W_js == <<"j", "s">>
X_html == <<".", "h", "t", "m", "l">>
X_js == <<".", "j", "s">>
X_css == <<".", "c", "s", "s">>
X_png == <<".", "p", "n", "g">>
X_jpg == <<".", "j", "p", "g">>
X_svg == <<".", "s", "v", "g">>
X_ico == <<".", "i", "c", "o">>
X_json == <<".", "j", "s", "o", "n">>
DotSlash == <<".", "/">>

STATIC_ASSETS == << DotSlash,
                    DotSlash \o W_index \o X_html,
                    DotSlash \o W_manifest \o X_json >>

OPTIONAL_ASSETS == << DotSlash \o W_iconDash \o W_192 \o X_png,
                      DotSlash \o W_iconDash \o W_512 \o X_png >>

\* performBackgroundSync keeps at most this many entries (line 252)
MAX_DYNAMIC_ENTRIES == 50

-----------------------------------------------------------------------------
(* URLs and requests *)

\* self.location: the worker script is served from the root of the app origin
AppOrigin == <<"https", "://", "app.example">>
OtherOrigin == <<"https", "://", "cdn.example">>
WorkerPath == <<"/", "s", "w", ".", "j", "s">>

\* new URL(href): the origin and the path name of an absolute URL
URL(href) == [origin |-> SubSeq(href, 1, 3), pathname |-> SubSeq(href, 4, Len(href))]

LastSlash(p) == CHOOSE i \in 1..Len(p) : p[i] = "/" /\ \A j \in (i + 1)..Len(p) : p[j] # "/"

\* A relative reference './x' resolved against the worker's own URL, as
\* cache.add('./x') and caches.match('./x') do
Resolve(rel) ==
    AppOrigin \o SubSeq(WorkerPath, 1, LastSlash(WorkerPath)) \o SubSeq(rel, 3, Len(rel))

MainDocument == Resolve(STATIC_ASSETS[2])

Req(origin, path, method, mode) ==
    [url |-> origin \o path, method |-> method, mode |-> mode]

-----------------------------------------------------------------------------
(* Strategy selection: sw.js lines 79-101 *)

getCacheStrategy_NoOriginTest(req) ==
    LET url == URL(req.url) IN
    IF \/ url.pathname = DotSlash
       \/ url.pathname = STATIC_ASSETS[2]
       \/ url.pathname = STATIC_ASSETS[3]
       \/ Includes(url.pathname, W_iconDash)
       \/ EndsWith(url.pathname, X_html)
       \/ EndsWith(url.pathname, X_js)
       \/ EndsWith(url.pathname, X_css)
       \/ EndsWith(url.pathname, X_png)
       \/ EndsWith(url.pathname, X_jpg)
       \/ EndsWith(url.pathname, X_svg)
       \/ EndsWith(url.pathname, X_ico)
    THEN "cache-first"
    ELSE "network-first"

getCacheStrategy(req) ==
    LET url == URL(req.url) IN
    IF url.origin = AppOrigin
       /\ (\/ url.pathname = DotSlash
           \/ url.pathname = STATIC_ASSETS[2]
           \/ url.pathname = STATIC_ASSETS[3]
           \/ Includes(url.pathname, W_iconDash)
           \/ EndsWith(url.pathname, X_html)
           \/ EndsWith(url.pathname, X_js)
           \/ EndsWith(url.pathname, X_css)
           \/ EndsWith(url.pathname, X_png)
           \/ EndsWith(url.pathname, X_jpg)
           \/ EndsWith(url.pathname, X_svg)
           \/ EndsWith(url.pathname, X_ico))
    THEN "cache-first"
    ELSE "network-first"

-----------------------------------------------------------------------------
(* Responses *)

\* Bodies the network can serve for one URL, 1..MaxBody
MaxBody == 2

Response(status, ctype, body) == [status |-> status, ctype |-> ctype, body |-> body]

\* `undefined`: what a cache lookup resolves with when nothing matches
undefined == Response(0, "undefined", 0)

\* fetch() rejected (network error)
NetworkError == Response(-1, "error", 0)

NetworkResponses == {Response(st, "network", b) : st \in {200, 404}, b \in 1..MaxBody}

NetworkOutcomes == NetworkResponses \cup {NetworkError}

Ok_AnyStatus(r) == r.status >= 200

\* Response.ok
Ok(r) == r.status >= 200 /\ r.status <= 299

\* new Response('Application hors ligne', {status: 503, ...}), lines 124-127
OfflineResponse == Response(503, "text/html; charset=utf-8", 0)

\* new Response('Contenu non disponible', {status: 404, ...}), lines 185-188
UnavailableResponse == Response(404, "text/plain; charset=utf-8", 0)

-----------------------------------------------------------------------------
(* CacheStorage and Cache: the host's store.  A generation is                *)
(* [name, entries]; entries are [url, response] in insertion order.          *)

Entry(url, r) == [url |-> url, response |-> r]

Names(cs) == {cs[i].name : i \in 1..Len(cs)}

\* caches.keys()
CachesKeys(cs) == [i \in 1..Len(cs) |-> cs[i].name]

CachesHas(cs, name) == name \in Names(cs)

Generation(cs, name) == cs[CHOOSE i \in 1..Len(cs) : cs[i].name = name]

Entries(cs, name) == IF CachesHas(cs, name) THEN Generation(cs, name).entries ELSE <<>>

CachesOpen_Fresh(cs, name) ==
    Append(SelectSeq(cs, LAMBDA g : g.name # name), [name |-> name, entries |-> <<>>])

\* caches.open(name): creates the generation when it does not exist
CachesOpen(cs, name) ==
    IF CachesHas(cs, name) THEN cs ELSE Append(cs, [name |-> name, entries |-> <<>>])

\* caches.delete(name), for a set of names
CachesDeleteAll(cs, names) == SelectSeq(cs, LAMBDA g : g.name \notin names)

\* cache.keys()
CacheKeys(entries) == [i \in 1..Len(entries) |-> entries[i].url]

\* cache.match(url)
CacheMatch(entries, url) ==
    IF \E i \in 1..Len(entries) : entries[i].url = url
    THEN entries[CHOOSE i \in 1..Len(entries) : entries[i].url = url].response
    ELSE undefined

\* caches.match(url): the first generation, in creation order, that holds the url
RECURSIVE CachesMatch(_, _)
CachesMatch(cs, url) ==
    IF cs = <<>> THEN undefined
    ELSE IF CacheMatch(Head(cs).entries, url) # undefined
         THEN CacheMatch(Head(cs).entries, url)
         ELSE CachesMatch(Tail(cs), url)

CacheDeleteAll_KeepLast(entries, urls) ==
    SelectSeq(entries, LAMBDA e : e.url \notin urls \/ e = entries[Len(entries)])

\* cache.delete(url), for a set of urls
CacheDeleteAll(entries, urls) == SelectSeq(entries, LAMBDA e : e.url \notin urls)

\* cache.put(url, r): replaces the entry of the url, the new entry comes last
CachePut(entries, url, r) == Append(CacheDeleteAll(entries, {url}), Entry(url, r))

\* A write through a handle of generation `name`; a handle whose generation
\* was deleted writes to nothing that can be observed
WriteIn(cs, name, entries) ==
    [i \in 1..Len(cs) |-> IF cs[i].name = name
                          THEN [name |-> name, entries |-> entries]
                          ELSE cs[i]]

PutIn(cs, name, url, r) == WriteIn(cs, name, CachePut(Entries(cs, name), url, r))

-----------------------------------------------------------------------------
(* Initial state: the script has been evaluated for a new registration.     *)
(* The store holds what earlier versions and other scripts of the origin    *)
(* left behind.                                                             *)

\* Messages the host delivers to a worker going through its lifecycle
MaxMessages == 2

\* Fetch, message and sync events the host delivers to the active worker
MaxEvents == 2

OLD_STATIC == <<"matteo-declic-", "static-", "v0.9.0">>
FOREIGN == <<"workbox-", "precache-", "v1.0.0">>

LeftBehind(name, url) ==
    [name |-> name, entries |-> <<Entry(url, Response(200, "network", 1))>>]

ForeignStore == LeftBehind(FOREIGN, OtherOrigin \o <<"/">> \o W_app \o X_js)
OldStaticStore == LeftBehind(OLD_STATIC, MainDocument)
OldUntaggedStore == LeftBehind(CACHE_NAME, Resolve(STATIC_ASSETS[3]))

InitialStores ==
    { <<ForeignStore>> \o stale :
        stale \in { <<>>, <<OldStaticStore>>, <<OldUntaggedStore>>,
                    <<OldStaticStore, OldUntaggedStore>> } }

NoRequest == [url |-> <<>>, method |-> "", mode |-> ""]
NoOutcome == [kind |-> "none", response |-> undefined, line |-> 0]
NoIO == [reads |-> 0, writes |-> 0, fetches |-> 0, faults |-> 0]

IdleHandlers ==
    /\ fpc = "idle" /\ request = NoRequest /\ strategy = "none"
    /\ netResponse = undefined /\ execOut = NoOutcome /\ out = NoOutcome /\ io = NoIO
    /\ pendingPuts = {}
    /\ spc = "idle" /\ syncKeys = <<>> /\ syncLive = FALSE /\ syncResult = "none"
    /\ cpc = "idle" /\ oldCaches = {} /\ cleanupPending = {} /\ cleanupResult = "none"
    /\ gpc = "idle" /\ statsNames = <<>> /\ stats = {}

Init ==
    /\ caches \in InitialStores
    /\ phase = "parsed" /\ installResult = "none" /\ installLog = "none"
    /\ skipWaiting = FALSE
    /\ apc = "idle" /\ actNames = {} /\ claimState = "none" /\ actResult = "none"
    /\ IdleHandlers
    /\ budget = MaxMessages

-----------------------------------------------------------------------------
(* install: sw.js lines 19-47 *)

\* cache.addAll(STATIC_ASSETS): every asset is fetched, and all are stored or none
RECURSIVE AddAll(_, _, _)
AddAll(entries, assets, body) ==
    IF assets = <<>> THEN entries
    ELSE AddAll(CachePut(entries, Resolve(Head(assets)), Response(200, "network", body)),
                Tail(assets), body)

\* OPTIONAL_ASSETS.map(asset => cache.add(asset).catch(...)): each asset on its own
RECURSIVE AddEach(_, _, _, _)
AddEach(entries, assets, stored, body) ==
    IF assets = <<>> THEN entries
    ELSE AddEach(IF Head(assets) \in stored
                 THEN CachePut(entries, Resolve(Head(assets)), Response(200, "network", body))
                 ELSE entries,
                 Tail(assets), stored, body)

\* Promise.all([...]).then(() => skipWaiting()).catch(error => console.error(...)):
\* the settlement of the promise handed to event.waitUntil
InstallSettlement(allFulfilled) ==
    IF allFulfilled THEN "fulfilled" ELSE "fulfilled"

SeedingFulfilled_OptionalRequired(openStatic, requiredStored, openDynamic, optionalStored) ==
    /\ openStatic /\ requiredStored /\ openDynamic
    /\ optionalStored = Range(OPTIONAL_ASSETS)

\* Promise.all([...]) of lines 23-40 is fulfilled: both generations opened and
\* addAll fulfilled; cache.add(asset).catch(...) under Promise.allSettled
\* never rejects, whatever optional assets are stored
SeedingFulfilled(openStatic, requiredStored, openDynamic, optionalStored) ==
    openStatic /\ requiredStored /\ openDynamic

\* openStatic, openDynamic: the caches.open calls succeed; requiredStored: every
\* required asset is fetched (2xx) and stored; optionalStored: the optional
\* assets that are fetched (2xx) and stored
Install(openStatic, requiredStored, openDynamic, optionalStored, body) ==
    /\ phase = "parsed"
    /\ LET c1 == IF openStatic THEN CachesOpen(caches, STATIC_CACHE) ELSE caches
           c2 == IF openStatic /\ requiredStored
                 THEN WriteIn(c1, STATIC_CACHE,
                              AddAll(Entries(c1, STATIC_CACHE), STATIC_ASSETS, body))
                 ELSE c1
           c3 == IF openDynamic THEN CachesOpen(c2, DYNAMIC_CACHE) ELSE c2
           c4 == IF openDynamic
                 THEN WriteIn(c3, DYNAMIC_CACHE,
                              AddEach(Entries(c3, DYNAMIC_CACHE), OPTIONAL_ASSETS,
                                      optionalStored, body))
                 ELSE c3
           allFulfilled == SeedingFulfilled(openStatic, requiredStored, openDynamic,
                                            optionalStored)
       IN /\ caches' = c4
          /\ skipWaiting' = allFulfilled
          /\ installLog' = IF allFulfilled THEN "then" ELSE "catch"
          /\ installResult' = InstallSettlement(allFulfilled)
          /\ phase' = IF InstallSettlement(allFulfilled) = "fulfilled"
                      THEN "installed" ELSE "redundant"
    /\ UNCHANGED <<apc, actNames, claimState, actResult, fetchVars, pendingPuts,
                   syncVars, budget, sweepVars>>

-----------------------------------------------------------------------------
(* activate: sw.js lines 50-76 *)

IsStale_ByVersionTag(cacheName) ==
    /\ StartsWith(cacheName, APP_PREFIX)
    /\ ~Includes(cacheName, VERSION_TAG)

\* The filter of lines 58-61
IsStale(cacheName) ==
    /\ StartsWith(cacheName, APP_PREFIX)
    /\ ~ArrayIncludes(<<STATIC_CACHE, DYNAMIC_CACHE>>, cacheName)

\* The host fires activate; caches.keys() and self.clients.claim() are both called
ActivateStart ==
    /\ phase = "installed"
    /\ phase' = "activating"
    /\ apc' = "keys"
    /\ claimState' = "pending"
    /\ UNCHANGED <<caches, installResult, installLog, skipWaiting, actNames, actResult, fetchVars,
                   pendingPuts, syncVars, budget, sweepVars>>

ActSettle_PruneOnly(prune, claim) ==
    IF actResult # "none" THEN actResult
    ELSE IF prune = "failed" \/ claim = "failed" THEN "catch"
    ELSE IF prune = "pruned" THEN "then"
    ELSE "none"

\* Promise.all settles: "catch" with its first rejection, "then" once the
\* deletions and the claim are all fulfilled; the host then activates the worker
ActSettle(prune, claim) ==
    IF actResult # "none" THEN actResult
    ELSE IF prune = "failed" \/ claim = "failed" THEN "catch"
    ELSE IF prune = "pruned" /\ claim = "done" THEN "then"
    ELSE "none"

ActAdvance(prune, claim) ==
    /\ apc' = prune
    /\ claimState' = claim
    /\ actResult' = ActSettle(prune, claim)
    /\ phase' = IF ActSettle(prune, claim) # "none" THEN "activated" ELSE phase

\* caches.keys() settles; the deletions of the stale names are issued
ActivateKeys(ok) ==
    /\ apc = "keys"
    /\ actNames' = IF ok THEN {n \in Range(CachesKeys(caches)) : IsStale(n)} ELSE {}
    /\ ActAdvance(IF ok THEN "deleting" ELSE "failed", claimState)
    /\ UNCHANGED <<caches, installResult, installLog, skipWaiting, fetchVars, pendingPuts,
                   syncVars, budget, sweepVars>>

\* The caches.delete calls settle; those in `rejected` fail
ActivateDelete(rejected) ==
    /\ apc = "deleting"
    /\ rejected \subseteq actNames
    /\ caches' = CachesDeleteAll(caches, actNames \ rejected)
    /\ ActAdvance(IF rejected = {} THEN "pruned" ELSE "failed", claimState)
    /\ UNCHANGED <<installResult, installLog, skipWaiting, actNames, fetchVars, pendingPuts,
                   syncVars, budget, sweepVars>>

\* self.clients.claim() settles
ActivateClaim(ok) ==
    /\ claimState = "pending"
    /\ ActAdvance(apc, IF ok THEN "done" ELSE "failed")
    /\ UNCHANGED <<caches, installResult, installLog, skipWaiting, actNames, fetchVars, pendingPuts,
                   syncVars, budget, sweepVars>>

-----------------------------------------------------------------------------
(* fetch: sw.js lines 104-192.  Every action runs the handler from one      *)
(* settled await to the next call it awaits.                                *)

Outcome(kind, r, line) == [kind |-> kind, response |-> r, line |-> line]

Read(i) == [i EXCEPT !.reads = @ + 1]
Write(i) == [i EXCEPT !.writes = @ + 1]
Fetch(i) == [i EXCEPT !.fetches = @ + 1]
Fault(i) == [i EXCEPT !.faults = @ + 1]

NotIntercepted_ChromeOnly(req) ==
    \/ req.method # "GET"
    \/ StartsWith(req.url, <<"chrome-extension", "://">>)

\* The guard of lines 157-159
NotIntercepted(req) ==
    \/ req.method # "GET"
    \/ StartsWith(req.url, <<"chrome-extension", "://">>)
    \/ StartsWith(req.url, <<"moz-extension", "://">>)

\* The host delivers a fetch event for request r to the active worker
FetchEvent(r) ==
    /\ phase = "activated"
    /\ fpc = "idle"
    /\ budget > 0
    /\ budget' = budget - 1
    /\ request' = r
    /\ netResponse' = undefined
    /\ execOut' = NoOutcome
    /\ IF NotIntercepted(r)
       THEN /\ strategy' = "none"
            /\ io' = NoIO
            /\ out' = Outcome("passthrough", undefined, 160)
            /\ fpc' = "settled"
       ELSE /\ strategy' = getCacheStrategy(r)
            /\ out' = NoOutcome
            /\ IF getCacheStrategy(r) = "cache-first"
               THEN io' = Read(NoIO) /\ fpc' = "cf_match"
               ELSE io' = Fetch(NoIO) /\ fpc' = "nf_fetch"
    /\ UNCHANGED <<caches, lifecycleVars, pendingPuts, syncVars, sweepVars>>

\* The executor returned response r at `line`; the dispatcher hands it to the host
Returns(r, line, i) ==
    /\ execOut' = Outcome("response", r, line)
    /\ out' = Outcome("response", r, line)
    /\ io' = i
    /\ fpc' = "settled"

\* The executor threw at `line`: the dispatcher's catch block, lines 173-189
Throws(line, i) ==
    /\ execOut' = Outcome("throw", undefined, line)
    /\ IF request.mode = "navigate"
       THEN /\ out' = out
            /\ io' = Read(i)
            /\ fpc' = "d_fallback"
       ELSE /\ out' = Outcome("response", UnavailableResponse, 185)
            /\ io' = i
            /\ fpc' = "settled"

CacheFirstCatch_NoNavigationFallback(i) == Throws(129, i)

\* cacheFirst's catch block, lines 119-130
CacheFirstCatch(i) ==
    IF request.mode = "navigate"
    THEN /\ io' = Read(i)
         /\ fpc' = "cf_fallback"
         /\ UNCHANGED <<execOut, out>>
    ELSE Throws(129, i)

CacheFirstHit_Revalidating(cachedResponse) ==
    /\ io' = Fetch(io)
    /\ fpc' = "cf_fetch"
    /\ UNCHANGED <<execOut, out>>

\* lines 107-110: the entry found is returned
CacheFirstHit(cachedResponse) == Returns(cachedResponse, 109, io)

\* line 106 settles
CacheFirstMatched(ok) ==
    /\ fpc = "cf_match"
    /\ LET cachedResponse == CachesMatch(caches, request.url) IN
       IF ~ok THEN CacheFirstCatch(Fault(io))
       ELSE IF cachedResponse # undefined THEN CacheFirstHit(cachedResponse)
       ELSE /\ io' = Fetch(io)
            /\ fpc' = "cf_fetch"
            /\ UNCHANGED <<execOut, out>>
    /\ UNCHANGED <<caches, lifecycleVars, request, strategy, netResponse, pendingPuts,
                   syncVars, budget, sweepVars>>

\* line 112 settles
CacheFirstFetched(net) ==
    /\ fpc = "cf_fetch"
    /\ IF net = NetworkError
       THEN CacheFirstCatch(io) /\ UNCHANGED netResponse
       ELSE IF Ok(net)
       THEN /\ netResponse' = net
            /\ fpc' = "cf_open"
            /\ UNCHANGED <<execOut, out, io>>
       ELSE Returns(net, 118, io) /\ netResponse' = net
    /\ UNCHANGED <<caches, lifecycleVars, request, strategy, pendingPuts, syncVars, budget,
                   sweepVars>>

CacheFirstOpened_AwaitsPut(ok) ==
    /\ fpc = "cf_open"
    /\ IF ok
       THEN /\ caches' = PutIn(CachesOpen(caches, DYNAMIC_CACHE), DYNAMIC_CACHE,
                               request.url, netResponse)
            /\ Returns(netResponse, 118, Write(io))
       ELSE /\ CacheFirstCatch(Fault(io))
            /\ UNCHANGED caches
    /\ UNCHANGED <<lifecycleVars, request, strategy, netResponse, pendingPuts, syncVars,
                   budget, sweepVars>>

\* line 114 settles; line 115 issues the put and does not await it
CacheFirstOpened(ok) ==
    /\ fpc = "cf_open"
    /\ IF ok
       THEN /\ caches' = CachesOpen(caches, DYNAMIC_CACHE)
            /\ pendingPuts' = pendingPuts \cup {Entry(request.url, netResponse)}
            /\ Returns(netResponse, 118, Write(io))
       ELSE /\ CacheFirstCatch(Fault(io))
            /\ UNCHANGED <<caches, pendingPuts>>
    /\ UNCHANGED <<lifecycleVars, request, strategy, netResponse, syncVars, budget, sweepVars>>

\* line 123 settles
CacheFirstFallback(ok) ==
    /\ fpc = "cf_fallback"
    /\ LET fallback == CachesMatch(caches, MainDocument) IN
       IF ~ok THEN Throws(123, Fault(io))
       ELSE IF fallback # undefined THEN Returns(fallback, 124, io)
       ELSE Returns(OfflineResponse, 124, io)
    /\ UNCHANGED <<caches, lifecycleVars, request, strategy, netResponse, pendingPuts,
                   syncVars, budget, sweepVars>>

\* line 136 settles
NetworkFirstFetched(net) ==
    /\ fpc = "nf_fetch"
    /\ IF net = NetworkError
       THEN /\ io' = Read(io)
            /\ fpc' = "nf_match"
            /\ UNCHANGED <<netResponse, execOut, out>>
       ELSE IF Ok(net) /\ request.method = "GET"
       THEN /\ netResponse' = net
            /\ fpc' = "nf_open"
            /\ UNCHANGED <<execOut, out, io>>
       ELSE Returns(net, 142, io) /\ netResponse' = net
    /\ UNCHANGED <<caches, lifecycleVars, request, strategy, pendingPuts, syncVars, budget,
                   sweepVars>>

\* line 138 settles; line 139 issues the put and does not await it
NetworkFirstOpened(ok) ==
    /\ fpc = "nf_open"
    /\ IF ok
       THEN /\ caches' = CachesOpen(caches, DYNAMIC_CACHE)
            /\ pendingPuts' = pendingPuts \cup {Entry(request.url, netResponse)}
            /\ Returns(netResponse, 142, Write(io))
       ELSE /\ io' = Read(Fault(io))
            /\ fpc' = "nf_match"
            /\ UNCHANGED <<caches, pendingPuts, execOut, out>>
    /\ UNCHANGED <<lifecycleVars, request, strategy, netResponse, syncVars, budget, sweepVars>>

NetworkFirstMiss_NavigationFallback ==
    IF request.mode = "navigate"
    THEN Returns(OfflineResponse, 150, io)
    ELSE Throws(150, io)

\* line 150: no cached copy, the network failure is thrown again
NetworkFirstMiss == Throws(150, io)

\* line 145 settles
NetworkFirstMatched(ok) ==
    /\ fpc = "nf_match"
    /\ LET cachedResponse == CachesMatch(caches, request.url) IN
       IF ~ok THEN Throws(145, Fault(io))
       ELSE IF cachedResponse # undefined THEN Returns(cachedResponse, 148, io)
       ELSE NetworkFirstMiss
    /\ UNCHANGED <<caches, lifecycleVars, request, strategy, netResponse, pendingPuts,
                   syncVars, budget, sweepVars>>

\* line 178 settles
DispatcherFallback(ok) ==
    /\ fpc = "d_fallback"
    /\ LET fallback == CachesMatch(caches, MainDocument) IN
       IF ~ok THEN out' = Outcome("reject", undefined, 178)
       ELSE IF fallback # undefined THEN out' = Outcome("response", fallback, 180)
       ELSE out' = Outcome("response", UnavailableResponse, 185)
    /\ io' = IF ok THEN io ELSE Fault(io)
    /\ fpc' = "settled"
    /\ UNCHANGED <<caches, lifecycleVars, request, strategy, netResponse, execOut,
                   pendingPuts, syncVars, budget, sweepVars>>

\* The host has taken what the handler gave it; the next fetch event can be told
\* apart from this one
FetchSettled ==
    /\ fpc = "settled"
    /\ fpc' = "idle"
    /\ request' = NoRequest
    /\ strategy' = "none"
    /\ netResponse' = undefined
    /\ execOut' = NoOutcome
    /\ out' = NoOutcome
    /\ io' = NoIO
    /\ UNCHANGED <<caches, lifecycleVars, pendingPuts, syncVars, budget, sweepVars>>

\* A put issued at line 115 or 139 settles: the entry is written to the dynamic
\* generation the handle was opened on, or the put is rejected
PutSettles(p, ok) ==
    /\ p \in pendingPuts
    /\ pendingPuts' = pendingPuts \ {p}
    /\ caches' = IF ok THEN PutIn(caches, DYNAMIC_CACHE, p.url, p.response) ELSE caches
    /\ UNCHANGED <<lifecycleVars, fetchVars, syncVars, budget, sweepVars>>

-----------------------------------------------------------------------------
(* message: sw.js lines 195-225 *)

MessageTypes == {"SKIP_WAITING", "GET_VERSION", "CLEAR_CACHE", "PREFETCH_ORACLE"}

\* The handler of one message.  CLEAR_CACHE enumerates the generations and
\* deletes the application's.  GET_VERSION and PREFETCH_ORACLE only answer on
\* the port.  Handles opened on a deleted generation (pending puts, the
\* synchronisation's `cache`) no longer reach the store.
Message(type) ==
    /\ phase \in {"installed", "activating", "activated"}
    /\ budget > 0
    /\ budget' = budget - 1
    /\ skipWaiting' = (skipWaiting \/ type = "SKIP_WAITING")
    /\ IF type = "CLEAR_CACHE"
       THEN LET names == {n \in Range(CachesKeys(caches)) : StartsWith(n, APP_PREFIX)} IN
            /\ caches' = CachesDeleteAll(caches, names)
            /\ pendingPuts' = IF DYNAMIC_CACHE \in names THEN {} ELSE pendingPuts
            /\ syncLive' = (syncLive /\ DYNAMIC_CACHE \notin names)
       ELSE UNCHANGED <<caches, pendingPuts, syncLive>>
    /\ UNCHANGED <<phase, installResult, installLog, apc, actNames, claimState, actResult,
                   fetchVars, spc, syncKeys, syncResult, sweepVars>>

-----------------------------------------------------------------------------
(* sync: sw.js lines 228-278 *)

OldestRequests_KeepOneMore(requests) ==
    SubSeq(requests, 1, Len(requests) - MAX_DYNAMIC_ENTRIES - 1)

\* slice(0, requests.length - 50), line 253
OldestRequests(requests) == SubSeq(requests, 1, Len(requests) - MAX_DYNAMIC_ENTRIES)

\* sync event tagged 'background-sync': performBackgroundSync runs to line 248
SyncEvent ==
    /\ phase = "activated"
    /\ spc = "idle"
    /\ budget > 0
    /\ budget' = budget - 1
    /\ spc' = "open"
    /\ UNCHANGED <<caches, lifecycleVars, fetchVars, pendingPuts, syncKeys, syncLive,
                   syncResult, sweepVars>>

\* line 248 settles
SyncOpened(ok) ==
    /\ spc = "open"
    /\ IF ok
       THEN /\ caches' = CachesOpen(caches, DYNAMIC_CACHE)
            /\ syncLive' = TRUE
            /\ spc' = "keys"
            /\ UNCHANGED syncResult
       ELSE /\ syncResult' = "catch"
            /\ spc' = "settled"
            /\ UNCHANGED <<caches, syncLive>>
    /\ UNCHANGED <<lifecycleVars, fetchVars, pendingPuts, syncKeys, budget, sweepVars>>

\* line 249 settles; lines 252-254 issue the deletions, or line 259 the re-seed.
\* A handle whose generation was deleted enumerates nothing of the store.
SyncEnumerated(ok) ==
    /\ spc = "keys"
    /\ LET requests == IF syncLive THEN CacheKeys(Entries(caches, DYNAMIC_CACHE)) ELSE <<>> IN
       IF ok
       THEN /\ syncKeys' = requests
            /\ spc' = IF Len(requests) > MAX_DYNAMIC_ENTRIES THEN "deleting" ELSE "add"
            /\ UNCHANGED syncResult
       ELSE /\ syncResult' = "catch"
            /\ spc' = "settled"
            /\ UNCHANGED syncKeys
    /\ UNCHANGED <<caches, lifecycleVars, fetchVars, pendingPuts, syncLive, budget, sweepVars>>

\* line 254 settles: the deletions in `rejected` fail, the others take effect
SyncDeleted(rejected) ==
    /\ spc = "deleting"
    /\ rejected \subseteq Range(OldestRequests(syncKeys))
    /\ caches' = IF syncLive
                 THEN WriteIn(caches, DYNAMIC_CACHE,
                              CacheDeleteAll(Entries(caches, DYNAMIC_CACHE),
                                             Range(OldestRequests(syncKeys)) \ rejected))
                 ELSE caches
    /\ IF rejected = {}
       THEN spc' = "add" /\ UNCHANGED syncResult
       ELSE spc' = "settled" /\ syncResult' = "catch"
    /\ UNCHANGED <<lifecycleVars, fetchVars, pendingPuts, syncKeys, syncLive, budget, sweepVars>>

\* line 259 settles: cache.add('./index.html') fetched `net` and, for a 2xx
\* response, stored it (stored) or failed to; either way line 261 is reached
SyncAdded(net, stored) ==
    /\ spc = "add"
    /\ caches' = IF Ok(net) /\ stored /\ syncLive
                 THEN PutIn(caches, DYNAMIC_CACHE, MainDocument, net)
                 ELSE caches
    /\ syncResult' = "done"
    /\ spc' = "settled"
    /\ UNCHANGED <<lifecycleVars, fetchVars, pendingPuts, syncKeys, syncLive, budget, sweepVars>>

\* The promise given to waitUntil at line 233 is settled
SyncSettled ==
    /\ spc = "settled"
    /\ spc' = "idle"
    /\ syncKeys' = <<>>
    /\ syncLive' = FALSE
    /\ syncResult' = "none"
    /\ UNCHANGED <<caches, lifecycleVars, fetchVars, pendingPuts, budget, sweepVars>>

PrefetchOracle_IntoStatic(opened, net, stored) ==
    /\ phase = "activated"
    /\ budget > 0
    /\ budget' = budget - 1
    /\ caches' = IF ~opened THEN caches
                 ELSE IF Ok(net) /\ stored
                 THEN PutIn(CachesOpen(caches, STATIC_CACHE), STATIC_CACHE,
                            Resolve(DotSlash), net)
                 ELSE CachesOpen(caches, STATIC_CACHE)
    /\ UNCHANGED <<lifecycleVars, fetchVars, pendingPuts, syncVars, sweepVars>>

\* sync event tagged 'oracle-prefetch': prefetchOracle, lines 267-278
PrefetchOracle(opened, net, stored) ==
    /\ phase = "activated"
    /\ budget > 0
    /\ budget' = budget - 1
    /\ caches' = IF ~opened THEN caches
                 ELSE IF Ok(net) /\ stored
                 THEN PutIn(CachesOpen(caches, DYNAMIC_CACHE), DYNAMIC_CACHE,
                            Resolve(DotSlash), net)
                 ELSE CachesOpen(caches, DYNAMIC_CACHE)
    /\ UNCHANGED <<lifecycleVars, fetchVars, pendingPuts, syncVars, sweepVars>>

-----------------------------------------------------------------------------
(* The periodic sweep: sw.js lines 414-457 *)

IsOld_AnyPrefixed(name) == StartsWith(name, APP_PREFIX)

IsOld_NotCurrent(name) ==
    /\ StartsWith(name, APP_PREFIX)
    /\ ~ArrayIncludes(<<STATIC_CACHE, DYNAMIC_CACHE>>, name)

\* The filter of lines 417-420
IsOld(name) ==
    /\ StartsWith(name, APP_PREFIX)
    /\ ~Includes(name, VERSION_TAG)

\* The timer callback of lines 454-457 calls cleanupCaches and getCacheStats;
\* each runs to its caches.keys() call
SweepTick ==
    /\ cpc = "idle" /\ gpc = "idle"
    /\ budget > 0
    /\ budget' = budget - 1
    /\ cpc' = "keys"
    /\ gpc' = "keys"
    /\ UNCHANGED <<caches, lifecycleVars, fetchVars, pendingPuts, syncVars, oldCaches,
                   cleanupPending, cleanupResult, statsNames, stats>>

\* cleanupCaches, line 416 settles; line 423 issues the deletions of the old names
CleanupKeys(ok) ==
    /\ cpc = "keys"
    /\ LET old == {n \in Range(CachesKeys(caches)) : IsOld(n)} IN
       IF ~ok
       THEN /\ cleanupResult' = "catch"
            /\ cpc' = "settled"
            /\ UNCHANGED <<oldCaches, cleanupPending>>
       ELSE /\ oldCaches' = old
            /\ cleanupPending' = old
            /\ cpc' = IF old = {} THEN "settled" ELSE "deleting"
            /\ cleanupResult' = IF old = {} THEN "done" ELSE "none"
    /\ UNCHANGED <<caches, lifecycleVars, fetchVars, pendingPuts, syncVars, gpc, statsNames,
                   stats, budget>>

\* One caches.delete of line 423 settles.  Promise.all rejects with the first
\* rejection (line 427); it is fulfilled when every deletion is (line 424)
CleanupDeleted(name, ok) ==
    /\ cpc = "deleting"
    /\ name \in cleanupPending
    /\ cleanupPending' = cleanupPending \ {name}
    /\ caches' = IF ok THEN CachesDeleteAll(caches, {name}) ELSE caches
    /\ cleanupResult' = IF ~ok THEN "catch"
                        ELSE IF cleanupPending = {name} /\ cleanupResult = "none" THEN "done"
                        ELSE cleanupResult
    /\ cpc' = IF cleanupPending = {name} THEN "settled" ELSE cpc
    /\ UNCHANGED <<lifecycleVars, fetchVars, pendingPuts, syncVars, oldCaches, gpc,
                   statsNames, stats, budget>>

\* The loop of lines 437-443 passes over the names without the prefix
RECURSIVE NextPrefixed(_)
NextPrefixed(names) ==
    IF names = <<>> \/ StartsWith(Head(names), APP_PREFIX) THEN names
    ELSE NextPrefixed(Tail(names))

\* getCacheStats, line 434 settles; the loop runs to its first caches.open
StatsKeys(ok) ==
    /\ gpc = "keys"
    /\ IF ok
       THEN /\ statsNames' = NextPrefixed(CachesKeys(caches))
            /\ gpc' = IF NextPrefixed(CachesKeys(caches)) = <<>> THEN "settled" ELSE "open"
       ELSE /\ gpc' = "settled"
            /\ UNCHANGED statsNames
    /\ UNCHANGED <<caches, lifecycleVars, fetchVars, pendingPuts, syncVars, cpc, oldCaches,
                   cleanupPending, cleanupResult, stats, budget>>

\* line 439 settles: caches.open(cacheName) for the name the loop is at
StatsOpened(ok) ==
    /\ gpc = "open"
    /\ IF ok
       THEN /\ caches' = CachesOpen(caches, Head(statsNames))
            /\ gpc' = "count"
            /\ UNCHANGED stats
       ELSE /\ gpc' = "settled"
            /\ stats' = {}
            /\ UNCHANGED caches
    /\ UNCHANGED <<lifecycleVars, fetchVars, pendingPuts, syncVars, cpc, oldCaches,
                   cleanupPending, cleanupResult, statsNames, budget>>

\* line 440 settles: the count is recorded and the loop goes to the next
\* prefixed name, or returns
StatsCounted(ok) ==
    /\ gpc = "count"
    /\ IF ok
       THEN /\ stats' = stats \cup
                  {<<Head(statsNames), Len(Entries(caches, Head(statsNames)))>>}
            /\ statsNames' = NextPrefixed(Tail(statsNames))
            /\ gpc' = IF NextPrefixed(Tail(statsNames)) = <<>> THEN "settled" ELSE "open"
       ELSE /\ gpc' = "settled"
            /\ stats' = {}
            /\ UNCHANGED statsNames
    /\ UNCHANGED <<caches, lifecycleVars, fetchVars, pendingPuts, syncVars, cpc, oldCaches,
                   cleanupPending, cleanupResult, budget>>

\* Both promises of the timer callback are settled; nothing keeps their results
SweepSettled ==
    /\ cpc = "settled" /\ gpc = "settled"
    /\ cpc' = "idle" /\ gpc' = "idle"
    /\ oldCaches' = {} /\ cleanupPending' = {} /\ cleanupResult' = "none"
    /\ statsNames' = <<>> /\ stats' = {}
    /\ UNCHANGED <<caches, lifecycleVars, fetchVars, pendingPuts, syncVars, budget>>

-----------------------------------------------------------------------------
(* The worker under the events of the host *)

R_document == Req(AppOrigin, <<"/">> \o W_index \o X_html, "GET", "navigate")
R_about == Req(AppOrigin, <<"/">> \o W_about \o X_html, "GET", "navigate")
R_script == Req(AppOrigin, <<"/">> \o W_app \o X_js, "GET", "no-cors")
R_root == Req(AppOrigin, <<"/">>, "GET", "navigate")
R_api == Req(OtherOrigin, <<"/">> \o W_api, "GET", "cors")
R_post == Req(AppOrigin, <<"/">> \o W_api, "POST", "cors")
R_extension == Req(<<"chrome-extension", "://", "abcdef">>, <<"/">> \o W_app \o X_js,
                   "GET", "no-cors")

Requests == {R_document, R_about, R_script, R_root, R_api, R_post, R_extension}

\* The lifecycle of a new registration: install, activate, and the messages
\* of the page in between
Next ==
    \/ \E openStatic, requiredStored, openDynamic \in BOOLEAN :
         \E optionalStored \in SUBSET Range(OPTIONAL_ASSETS) :
           Install(openStatic, requiredStored, openDynamic, optionalStored, 1)
    \/ ActivateStart
    \/ \E ok \in BOOLEAN : ActivateKeys(ok)
    \/ \E rejected \in SUBSET actNames : ActivateDelete(rejected)
    \/ \E ok \in BOOLEAN : ActivateClaim(ok)
    \/ \E type \in MessageTypes : Message(type)

Spec == Init /\ [][Next]_vars

\* The active worker, restarted by the host over the store it finds: after a
\* clean installation, after a CLEAR_CACHE, and with the main document
\* re-seeded in the dynamic generation
SeededStatic ==
    [name |-> STATIC_CACHE, entries |-> AddAll(<<>>, STATIC_ASSETS, 1)]

ActiveStores ==
    { <<ForeignStore, SeededStatic, [name |-> DYNAMIC_CACHE, entries |-> <<>>]>>,
      <<ForeignStore>>,
      <<ForeignStore, [name |-> DYNAMIC_CACHE,
                       entries |-> <<Entry(MainDocument, Response(200, "network", 1))>>]>> }

InitActive ==
    /\ caches \in ActiveStores
    /\ phase = "activated" /\ installResult = "fulfilled" /\ installLog = "then"
    /\ skipWaiting = TRUE
    /\ apc = "pruned" /\ actNames = {} /\ claimState = "done" /\ actResult = "then"
    /\ IdleHandlers
    /\ budget = MaxEvents

NextFetch ==
    \/ \E r \in Requests : FetchEvent(r)
    \/ \E ok \in BOOLEAN : CacheFirstMatched(ok)
    \/ \E net \in NetworkOutcomes : CacheFirstFetched(net)
    \/ \E ok \in BOOLEAN : CacheFirstOpened(ok)
    \/ \E ok \in BOOLEAN : CacheFirstFallback(ok)
    \/ \E net \in NetworkOutcomes : NetworkFirstFetched(net)
    \/ \E ok \in BOOLEAN : NetworkFirstOpened(ok)
    \/ \E ok \in BOOLEAN : NetworkFirstMatched(ok)
    \/ \E ok \in BOOLEAN : DispatcherFallback(ok)
    \/ FetchSettled
    \/ \E p \in pendingPuts : \E ok \in BOOLEAN : PutSettles(p, ok)
    \/ \E type \in MessageTypes : Message(type)
    \/ \E opened, stored \in BOOLEAN : \E net \in NetworkOutcomes :
         PrefetchOracle(opened, net, stored)

SpecFetch == InitActive /\ [][NextFetch]_vars

-----------------------------------------------------------------------------
(* The dispatcher's first step over many requests: every origin, method and  *)
(* mode below, and every path made of at most MaxPathPieces pieces           *)

MaxPathPieces == 2

PathPieces == { <<"/">>, <<"a">>, W_icon, W_iconDash, W_index, W_manifest, W_js,
                X_html, X_js, X_json, X_css, X_png, X_jpg, X_svg, X_ico }

RECURSIVE Paths(_)
Paths(n) ==
    IF n = 0 THEN { <<"/">> }
    ELSE Paths(n - 1) \cup { p \o piece : p \in Paths(n - 1), piece \in PathPieces }

DispatchOrigins == { AppOrigin, OtherOrigin,
                     <<"chrome-extension", "://", "abcdef">>,
                     <<"moz-extension", "://", "abcdef">> }

DispatchRequests ==
    { Req(origin, path, method, mode) :
        origin \in DispatchOrigins, path \in Paths(MaxPathPieces),
        method \in {"GET", "POST"}, mode \in {"navigate", "no-cors"} }

InitStrategy ==
    /\ caches = <<ForeignStore, SeededStatic, [name |-> DYNAMIC_CACHE, entries |-> <<>>]>>
    /\ phase = "activated" /\ installResult = "fulfilled" /\ installLog = "then"
    /\ skipWaiting = TRUE
    /\ apc = "pruned" /\ actNames = {} /\ claimState = "done" /\ actResult = "then"
    /\ IdleHandlers
    /\ budget = 1

\* One fetch event is delivered to the idle handler
NextStrategy ==
    /\ fpc = "idle"
    /\ \E r \in DispatchRequests : FetchEvent(r)

SpecStrategy == InitStrategy /\ [][NextStrategy]_vars

-----------------------------------------------------------------------------
(* Claims on strategy selection and interception *)

LastIndexOf(s, c) ==
    IF \E i \in 1..Len(s) : s[i] = c
    THEN CHOOSE i \in 1..Len(s) : s[i] = c /\ \A j \in (i + 1)..Len(s) : s[j] # c
    ELSE 0

\* The extension of a path: what follows the last dot of its last segment
PathExtension(path) ==
    IF LastIndexOf(path, ".") > LastIndexOf(path, "/")
    THEN SubSeq(path, LastIndexOf(path, ".") + 1, Len(path))
    ELSE <<>>

ListedExtensions == { Tail(X_html), Tail(X_js), Tail(X_css), Tail(X_png), Tail(X_jpg),
                      Tail(X_svg), Tail(X_ico) }

Classified == strategy # "none"

SameOrigin == URL(request.url).origin = AppOrigin

HasListedExtension == PathExtension(URL(request.url).pathname) \in ListedExtensions

IconNamed == Includes(URL(request.url).pathname, W_iconDash)

\* C8, as stated: cache-first exactly for the same-origin requests whose path
\* extension is one of html, js, css, png, jpg, svg, ico; network-first otherwise
C8_ExactlyListedExtensions ==
    Classified =>
        (strategy = "cache-first" <=> (SameOrigin /\ HasListedExtension))

\* C8, amended: cache-first exactly for the same-origin requests whose path
\* extension is one of the seven listed or whose path contains 'icon-';
\* every other request is network-first
C8_ListedExtensionOrIconNamed ==
    Classified =>
        /\ strategy \in {"cache-first", "network-first"}
        /\ strategy = "cache-first" <=> (SameOrigin /\ (HasListedExtension \/ IconNamed))

\* C8: a same-origin request with a listed extension and no 'icon-' in its path
\* has been classified cache-first
C8_Witness ==
    /\ Classified /\ SameOrigin /\ HasListedExtension /\ ~IconNamed
    /\ strategy = "cache-first"

\* C9: a same-origin request for the app root (path ending in '/') or for the
\* manifest (path ending in '/manifest.json') is classified cache-first
C9_RootAndManifestCacheFirst ==
    (/\ Classified
     /\ SameOrigin
     /\ \/ EndsWith(URL(request.url).pathname, <<"/">>)
        \/ EndsWith(URL(request.url).pathname, <<"/">> \o W_manifest \o X_json))
    => strategy = "cache-first"

Delivered == request # NoRequest

\* The requests the dispatcher must leave alone, in the claim's words
MustPassThrough ==
    \/ request.method # "GET"
    \/ request.url[1] \in {"chrome-extension", "moz-extension"}

\* C10: a request that is not GET, or whose URL has a browser-extension scheme,
\* is never intercepted: the handler has returned without a response, without a
\* strategy and without any cache read, cache write or network fetch, and has
\* left the store and the pending writes as they were
C10_NeverIntercepted ==
    (Delivered /\ MustPassThrough) =>
        /\ fpc = "settled"
        /\ out = Outcome("passthrough", undefined, 160)
        /\ execOut = NoOutcome
        /\ strategy = "none"
        /\ io = NoIO
        /\ pendingPuts = {}
        /\ caches = <<ForeignStore, SeededStatic, [name |-> DYNAMIC_CACHE, entries |-> <<>>]>>

\* C10: an extension-scheme GET request has been delivered and passed through
C10_Witness ==
    /\ Delivered
    /\ request.method = "GET"
    /\ request.url[1] = "moz-extension"
    /\ out.kind = "passthrough"

-----------------------------------------------------------------------------
(* Claims on the lifecycle handlers (specification Spec) *)

AppGenerations(cs) == {n \in Names(cs) : StartsWith(n, APP_PREFIX)}

OtherGenerations(cs) == SelectSeq(cs, LAMBDA g : ~StartsWith(g.name, APP_PREFIX))

RequiredStored(cs) ==
    \A i \in 1..Len(STATIC_ASSETS) :
        CacheMatch(Entries(cs, STATIC_CACHE), Resolve(STATIC_ASSETS[i])) # undefined

\* C1: when a required asset could not be stored in the static generation, the
\* install handler's promise fails, skip-waiting is not requested and the
\* worker does not become the installed version
C1_RequiredFailureAbortsInstall ==
    [][ (phase = "parsed" /\ phase' # "parsed" /\ ~RequiredStored(caches'))
        => (/\ installResult' = "rejected"
            /\ ~skipWaiting'
            /\ phase' = "redundant") ]_vars

\* C2, as stated, taken in the case most favourable to it (an installation
\* that stored everything, an activation that completes without error): when
\* the activate handler completes, the application-prefixed generations are
\* exactly the static and the dynamic one
C2_ExactlyTheTwoCurrent ==
    [][ (installLog = "then" /\ actResult = "none" /\ actResult' = "then")
        => AppGenerations(caches') = {STATIC_CACHE, DYNAMIC_CACHE} ]_vars

\* C2, amended: once the activate handler has completed without error, every
\* application-prefixed generation is the static or the dynamic one (each only
\* if it existed, activate creates none), every stale one it enumerated is
\* gone, and the generations without the prefix are untouched
C2_OnlyCurrentSurvive ==
    actResult = "then" =>
        /\ AppGenerations(caches) \subseteq {STATIC_CACHE, DYNAMIC_CACHE}
        /\ actNames \cap Names(caches) = {}
        /\ OtherGenerations(caches) = <<ForeignStore>>

\* C2: activation completed after deleting two stale generations, both current
\* generations are there
C2_Witness ==
    /\ actResult = "then"
    /\ actNames = {OLD_STATIC, CACHE_NAME}
    /\ AppGenerations(caches) = {STATIC_CACHE, DYNAMIC_CACHE}

-----------------------------------------------------------------------------
(* Claims on the executors and the dispatcher (specification SpecFetch) *)

Navigation == request.mode = "navigate"

\* The handler's network fetch was called and rejected, and no cache-store call
\* of the handler was rejected
NetworkFailedOnly == io.fetches = 1 /\ netResponse = undefined /\ io.faults = 0

CachedMainDocument == CachesMatch(caches, MainDocument)

\* C4: cacheFirst, no entry for the request, the network fetch fails: for a
\* navigation the executor goes to the main-document lookup and returns the
\* cached main document if there is one in any generation, else a synthesized
\* 503 HTML response; for any other request it throws
C4_CacheFirstNetworkFailure ==
    [][ /\ (fpc = "cf_fetch" /\ fpc' # "cf_fetch" /\ netResponse' = undefined)
           => IF Navigation
              THEN fpc' = "cf_fallback" /\ execOut' = NoOutcome
              ELSE execOut'.kind = "throw" /\ fpc' = "settled"
        /\ (fpc = "cf_fallback" /\ fpc' # "cf_fallback" /\ NetworkFailedOnly
            /\ io'.faults = 0)
           => /\ execOut'.kind = "response"
              /\ out' = execOut'
              /\ IF CachedMainDocument # undefined
                 THEN execOut'.response = CachedMainDocument
                 ELSE /\ execOut'.response.status = 503
                      /\ execOut'.response.ctype = "text/html; charset=utf-8"
                      /\ execOut'.response.body = 0 ]_vars

\* C4: a cache-first navigation whose fetch failed was answered with the
\* synthesized 503
C4_Witness ==
    /\ fpc = "settled" /\ strategy = "cache-first" /\ Navigation
    /\ NetworkFailedOnly
    /\ execOut.kind = "response" /\ execOut.response.status = 503

CacheFirstRequests == {r \in Requests : ~NotIntercepted(r) /\ getCacheStrategy(r) = "cache-first"}

\* A step of cacheFirst that finds the request in a cache
HitStep ==
    /\ fpc = "cf_match" /\ fpc' # "cf_match"
    /\ io'.faults = io.faults
    /\ CachesMatch(caches, request.url) # undefined

\* C5, first part: a hit returns the entry found, with no network fetch and no
\* cache write
C5_HitPart ==
    HitStep =>
        /\ fpc' = "settled"
        /\ execOut' = Outcome("response", CachesMatch(caches, request.url), 109)
        /\ out' = execOut'
        /\ io'.fetches = 0 /\ io'.writes = 0
        /\ caches' = caches /\ pendingPuts' = pendingPuts

\* C5, as stated: a hit returns the entry; and the entry a cache-first request
\* is served from stays the same until it is evicted or its generation deleted
C5_MemoizedUntilEvicted ==
    [][ /\ C5_HitPart
        /\ \A r \in CacheFirstRequests :
              (/\ CachesMatch(caches, r.url) # undefined
               /\ CachesMatch(caches', r.url) # CachesMatch(caches, r.url))
              => /\ CachesMatch(caches', r.url) = undefined
                 /\ Names(caches') # Names(caches) ]_vars

\* C5, amended: a hit returns the entry with no network fetch and no cache
\* write, and no step of a fetch handler changes the entry an already cached
\* cache-first request is served from; the entry stays the same until it is
\* evicted, its generation is deleted, or a write for the same request
\* (a put still pending from an earlier miss) replaces it
C5_HitServesEntryUntouched ==
    [][ /\ C5_HitPart
        /\ \A r \in CacheFirstRequests :
              (/\ CachesMatch(caches, r.url) # undefined
               /\ CachesMatch(caches', r.url) # CachesMatch(caches, r.url))
              => /\ fpc' = fpc
                 /\ \/ CachesMatch(caches', r.url) = undefined /\ Names(caches') # Names(caches)
                    \/ \E p \in pendingPuts \ pendingPuts' :
                          p.url = r.url /\ CachesMatch(caches', r.url) = p.response ]_vars

\* C5: a cache-first request was served from the cache
C5_Witness ==
    /\ fpc = "settled" /\ strategy = "cache-first"
    /\ execOut.kind = "response" /\ execOut.line = 109
    /\ io.fetches = 0

\* C6: networkFirst fetches before it reads any cache; when the fetch fails it
\* looks the request up and returns the cached copy if there is one in any
\* generation, else it throws, for navigations too
C6_NetworkFirstFallback ==
    [][ /\ (fpc = "idle" /\ strategy' = "network-first")
           => fpc' = "nf_fetch" /\ io'.fetches = 1 /\ io'.reads = 0
        /\ (fpc = "nf_fetch" /\ fpc' # "nf_fetch" /\ netResponse' = undefined)
           => fpc' = "nf_match" /\ execOut' = NoOutcome
        /\ (fpc = "nf_match" /\ fpc' # "nf_match" /\ NetworkFailedOnly /\ io'.faults = 0)
           => IF CachesMatch(caches, request.url) # undefined
              THEN /\ execOut' = Outcome("response", CachesMatch(caches, request.url), 148)
                   /\ out' = execOut'
              ELSE /\ execOut'.kind = "throw"
                   /\ execOut'.response = undefined ]_vars

\* C6: a network-first navigation whose fetch failed and that has no cached copy
\* made the executor throw
C6_Witness ==
    /\ strategy = "network-first" /\ Navigation
    /\ NetworkFailedOnly
    /\ execOut.kind = "throw" /\ execOut.line = 150

\* C7: whatever fails along the way, the dispatcher hands the host a response
\* for every intercepted request: the executor's, the cached main document or
\* the synthesized 404
C7_AlwaysAResponse ==
    (fpc = "settled" /\ Classified) => out.kind = "response"

-----------------------------------------------------------------------------
(* Background synchronisation alone, on an active worker whose dynamic       *)
(* generation holds MAX_DYNAMIC_ENTRIES - 1 .. MAX_DYNAMIC_ENTRIES +         *)
(* MaxExcess entries; the main document is at any place of it, or absent     *)

MaxExcess == 3

DigitChar == <<"0", "1", "2", "3", "4", "5", "6", "7", "8", "9">>

DataURL(i) ==
    AppOrigin \o <<"/", "d", "/", DigitChar[(i \div 10) + 1], DigitChar[(i % 10) + 1]>>

FilledDynamic(n, documentAt) ==
    [name |-> DYNAMIC_CACHE,
     entries |-> [i \in 1..n |->
                    Entry(IF i = documentAt THEN MainDocument ELSE DataURL(i),
                          Response(200, "network", 1))]]

InitEvict ==
    /\ \E n \in (MAX_DYNAMIC_ENTRIES - 1)..(MAX_DYNAMIC_ENTRIES + MaxExcess) :
         \E documentAt \in 0..n :
           caches = <<ForeignStore, SeededStatic, FilledDynamic(n, documentAt)>>
    /\ phase = "activated" /\ installResult = "fulfilled" /\ installLog = "then"
    /\ skipWaiting = TRUE
    /\ apc = "pruned" /\ actNames = {} /\ claimState = "done" /\ actResult = "then"
    /\ IdleHandlers
    /\ budget = MaxEvents

NextEvict ==
    \/ SyncEvent
    \/ \E ok \in BOOLEAN : SyncOpened(ok)
    \/ \E ok \in BOOLEAN : SyncEnumerated(ok)
    \/ \E rejected \in SUBSET Range(OldestRequests(syncKeys)) : SyncDeleted(rejected)
    \/ \E net \in NetworkOutcomes : \E stored \in BOOLEAN : SyncAdded(net, stored)
    \/ SyncSettled

SpecEvict == InitEvict /\ [][NextEvict]_vars

\* slice(-50) of the enumeration: its last MAX_DYNAMIC_ENTRIES requests
Newest(requests) ==
    SubSeq(requests, Len(requests) - 50 + 1, Len(requests))

DynamicKeys == CacheKeys(Entries(caches, DYNAMIC_CACHE))

Evicted == spc = "settled" /\ syncResult = "done" /\ Len(syncKeys) > 50

\* C3, as stated: after performBackgroundSync has run to its end on more than
\* 50 entries, the re-seed included, the dynamic generation holds exactly 50
\* entries, those of the last 50 requests of the enumeration
C3_ExactlyTheNewestFifty ==
    Evicted =>
        /\ Len(DynamicKeys) = 50
        /\ Range(DynamicKeys) = Range(Newest(syncKeys))

\* C3, amended: after performBackgroundSync has run to its end on n > 50
\* entries, the dynamic generation holds the last 50 entries of the
\* enumeration, in their order, and the main document when the re-seed stored
\* it: the re-seeded main document comes last, in place of its older entry
\* if it was among the 50 (50 entries), in addition to them if not (51)
C3_NewestFiftyAndReseed ==
    Evicted =>
        \/ DynamicKeys = Newest(syncKeys)
        \/ DynamicKeys = Append(SelectSeq(Newest(syncKeys), LAMBDA u : u # MainDocument),
                                MainDocument)

\* C3: 53 entries were enumerated, three were evicted and the re-seed added the
\* main document as a 51st entry
C3_Witness ==
    /\ Evicted
    /\ Len(syncKeys) = 53
    /\ Len(DynamicKeys) = 51
    /\ DynamicKeys[51] = MainDocument

-----------------------------------------------------------------------------
(* Claims on the generations the executors touch (specification SpecFetch) *)

\* The positions of the fetch handler inside cacheFirst or networkFirst
ExecutorPositions ==
    {"cf_match", "cf_fetch", "cf_open", "cf_fallback", "nf_fetch", "nf_open", "nf_match"}

\* A step of cacheFirst or networkFirst
ExecutorStep == fpc \in ExecutorPositions /\ fpc' # fpc

\* C11, as stated: no step of an executor creates or deletes a generation; the
\* set of existing generations is the same before and after
C11_ExecutorsKeepGenerationSet ==
    [][ ExecutorStep => Names(caches') = Names(caches) ]_vars

\* C11, amended: no step of an executor deletes a generation or changes one
\* that exists; the only generation an executor creates is the dynamic one,
\* empty, when it holds a 2xx network response and the dynamic generation
\* does not exist (lines 114 and 138)
C11_ExecutorsOnlyCreateDynamic ==
    [][ ExecutorStep =>
          \/ caches' = caches
          \/ /\ fpc \in {"cf_open", "nf_open"}
             /\ Ok(netResponse)
             /\ ~CachesHas(caches, DYNAMIC_CACHE)
             /\ caches' = Append(caches, [name |-> DYNAMIC_CACHE, entries |-> <<>>]) ]_vars

\* C11: the only event delivered was a fetch, served from the network with a
\* 2xx response, and its executor created the dynamic generation that a
\* CLEAR_CACHE had removed
C11_Witness ==
    /\ budget = MaxEvents - 1
    /\ fpc = "settled" /\ execOut.kind = "response" /\ Ok(execOut.response)
    /\ io.writes = 1
    /\ Names(caches) = {FOREIGN, DYNAMIC_CACHE}
    /\ Entries(caches, DYNAMIC_CACHE) = <<>>

-----------------------------------------------------------------------------
(* The life of one version of the worker after its installation: the       *)
(* activation, and fetch, message, sync and timer events in any order       *)

\* Fetch, message, sync and timer events the host delivers in that life
MaxLifeEvents == 1

LifeRequests == {R_about, R_api}

\* What a clean installation leaves (lines 25-39) over the store it found:
\* the static generation seeded after two stale generations and an empty
\* dynamic one, or after a dynamic generation that an earlier life of this
\* version has filled
InstalledStores ==
    { <<ForeignStore, OldStaticStore, OldUntaggedStore, SeededStatic,
        [name |-> DYNAMIC_CACHE, entries |-> <<>>]>>,
      <<ForeignStore, FilledDynamic(MAX_DYNAMIC_ENTRIES + 1, 0), SeededStatic>> }

InitLife ==
    /\ caches \in InstalledStores
    /\ phase = "installed" /\ installResult = "fulfilled" /\ installLog = "then"
    /\ skipWaiting = TRUE
    /\ apc = "idle" /\ actNames = {} /\ claimState = "none" /\ actResult = "none"
    /\ IdleHandlers
    /\ budget = MaxLifeEvents

NextLife ==
    \/ ActivateStart
    \/ \E ok \in BOOLEAN : ActivateKeys(ok)
    \/ \E rejected \in SUBSET actNames : ActivateDelete(rejected)
    \/ \E ok \in BOOLEAN : ActivateClaim(ok)
    \/ \E type \in MessageTypes : Message(type)
    \/ \E r \in LifeRequests : FetchEvent(r)
    \/ \E ok \in BOOLEAN : CacheFirstMatched(ok)
    \/ \E net \in NetworkOutcomes : CacheFirstFetched(net)
    \/ \E ok \in BOOLEAN : CacheFirstOpened(ok)
    \/ \E ok \in BOOLEAN : CacheFirstFallback(ok)
    \/ \E net \in NetworkOutcomes : NetworkFirstFetched(net)
    \/ \E ok \in BOOLEAN : NetworkFirstOpened(ok)
    \/ \E ok \in BOOLEAN : NetworkFirstMatched(ok)
    \/ \E ok \in BOOLEAN : DispatcherFallback(ok)
    \/ FetchSettled
    \/ \E p \in pendingPuts : \E ok \in BOOLEAN : PutSettles(p, ok)
    \/ \E opened, stored \in BOOLEAN : \E net \in NetworkOutcomes :
         PrefetchOracle(opened, net, stored)
    \/ SyncEvent
    \/ \E ok \in BOOLEAN : SyncOpened(ok)
    \/ \E ok \in BOOLEAN : SyncEnumerated(ok)
    \/ \E rejected \in SUBSET Range(OldestRequests(syncKeys)) : SyncDeleted(rejected)
    \/ \E net \in NetworkOutcomes : \E stored \in BOOLEAN : SyncAdded(net, stored)
    \/ SyncSettled
    \/ SweepTick
    \/ \E ok \in BOOLEAN : CleanupKeys(ok)
    \/ \E name \in cleanupPending : \E ok \in BOOLEAN : CleanupDeleted(name, ok)
    \/ \E ok \in BOOLEAN : StatsKeys(ok)
    \/ \E ok \in BOOLEAN : StatsOpened(ok)
    \/ \E ok \in BOOLEAN : StatsCounted(ok)
    \/ SweepSettled

SpecLife == InitLife /\ [][NextLife]_vars

-----------------------------------------------------------------------------
(* Claims on the life of the generations (specification SpecLife) *)

CurrentGenerations == {STATIC_CACHE, DYNAMIC_CACHE}

\* A step of the message listener: no handler in flight moves
MessageStep ==
    /\ budget' = budget - 1
    /\ phase' = phase /\ fpc' = fpc /\ spc' = spc /\ cpc' = cpc /\ gpc' = gpc

C13_StaticImmutable ==
    [][ /\ Entries(caches', STATIC_CACHE) # Entries(caches, STATIC_CACHE)
           => MessageStep /\ AppGenerations(caches') = {}
        /\ \A n \in (Names(caches) \cap Names(caches')) \ {DYNAMIC_CACHE} :
              Entries(caches', n) = Entries(caches, n) ]_vars

\* C13: the activated worker answered a fetch from the network and the put has
\* stored the response in the dynamic generation; the static generation holds
\* what the installation seeded
C13_Witness ==
    /\ phase = "activated" /\ fpc = "settled" /\ io.writes = 1 /\ pendingPuts = {}
    /\ CacheMatch(Entries(caches, DYNAMIC_CACHE), request.url) = netResponse
    /\ Ok(netResponse)
    /\ Entries(caches, STATIC_CACHE) = SeededStatic.entries

-----------------------------------------------------------------------------
(* Further claims on the lifecycle handlers (specification Spec) *)

\* C14: when the required assets are stored and the dynamic generation is
\* opened, the installation completes and ends by requesting skip-waiting,
\* whichever optional assets failed to be fetched or stored
C14_OptionalFailureTolerated ==
    [][ (/\ phase = "parsed" /\ phase' # "parsed"
         /\ RequiredStored(caches')
         /\ CachesHas(caches', DYNAMIC_CACHE))
        => (/\ installResult' = "fulfilled"
            /\ installLog' = "then"
            /\ skipWaiting'
            /\ phase' = "installed") ]_vars

\* C14: the installation has completed and requested skip-waiting although
\* no optional asset was stored
C14_Witness ==
    /\ phase = "installed" /\ installLog = "then" /\ skipWaiting
    /\ RequiredStored(caches)
    /\ CachesHas(caches, DYNAMIC_CACHE) /\ Entries(caches, DYNAMIC_CACHE) = <<>>

-----------------------------------------------------------------------------
(* Claims on the cache writes of the executors (specification SpecFetch) *)

\* The executor returns the 2xx network response it has issued the put for
\* (line 118 or 142)
ReturnsStored ==
    /\ fpc \in {"cf_open", "nf_open"} /\ fpc' = "settled"
    /\ execOut'.kind = "response" /\ execOut'.line \in {118, 142}

StoredInDynamic(cs, url) == CacheMatch(Entries(cs, DYNAMIC_CACHE), url)

\* C15, as stated: at the moment an executor returns a 2xx network response,
\* the dynamic generation holds the entry for the request
C15_StoredBeforeReturn ==
    [][ ReturnsStored => StoredInDynamic(caches', request.url) = execOut'.response ]_vars

\* C15, amended: at the moment an executor returns a 2xx network response the
\* dynamic generation exists and the put of that response has been issued but
\* has not settled: the step of the return changes no entry; the entry is in
\* the dynamic generation once the put has settled without error
C15_PutIssuedNotAwaited ==
    [][ /\ ReturnsStored
           => /\ Ok(execOut'.response)
              /\ Entry(request.url, execOut'.response) \in pendingPuts'
              /\ CachesHas(caches', DYNAMIC_CACHE)
              /\ Entries(caches', DYNAMIC_CACHE) = Entries(caches, DYNAMIC_CACHE)
        /\ \A p \in pendingPuts \ pendingPuts' :
              (budget' = budget /\ caches' # caches)
              => StoredInDynamic(caches', p.url) = p.response ]_vars

\* C15: cacheFirst has returned the network response while its put is pending
\* and the dynamic generation has no entry for the request
C15_Witness ==
    /\ fpc = "settled" /\ strategy = "cache-first"
    /\ execOut.kind = "response" /\ execOut.line = 118 /\ Ok(execOut.response)
    /\ Entry(request.url, execOut.response) \in pendingPuts
    /\ StoredInDynamic(caches, request.url) = undefined

\* A response with a status in the range 200-299
Is2xx(r) == r.status \in 200..299

\* The network fetch of the executor in flight settles (line 112 or 136)
FetchSettles == fpc \in {"cf_fetch", "nf_fetch"} /\ fpc' # fpc

\* C16: when the fetch fails the executor issues no put; when the network
\* response is not 2xx the executor issues no put and returns that response as
\* it is, with no cache lookup; a handler that has no 2xx network response
\* has written nothing; every put issued, and every entry of the dynamic
\* generation, is a 2xx response
C16_WritesOnSuccessOnly ==
    [][ /\ (FetchSettles /\ netResponse' = undefined)
           => pendingPuts' = pendingPuts /\ caches' = caches /\ io'.writes = 0
        /\ (FetchSettles /\ netResponse' # undefined /\ ~Is2xx(netResponse'))
           => /\ fpc' = "settled"
              /\ execOut'.kind = "response" /\ execOut'.response = netResponse'
              /\ execOut'.line \in {118, 142}
              /\ out' = execOut'
              /\ io'.reads = io.reads /\ io'.writes = 0
              /\ pendingPuts' = pendingPuts /\ caches' = caches
        /\ ~Is2xx(netResponse') => io'.writes = 0
        /\ \A p \in pendingPuts' : Is2xx(p.response)
        /\ \A i \in 1..Len(Entries(caches', DYNAMIC_CACHE)) :
              Is2xx(Entries(caches', DYNAMIC_CACHE)[i].response) ]_vars

\* C16: a network-first request got a 404 from the network; it was returned as
\* it is and nothing was written
C16_Witness ==
    /\ fpc = "settled" /\ strategy = "network-first"
    /\ execOut = Outcome("response", netResponse, 142)
    /\ netResponse.status = 404 /\ netResponse.ctype = "network"
    /\ out = execOut
    /\ io.writes = 0 /\ io.reads = 0 /\ pendingPuts = {}

\* C17: a handler whose network fetch gave a 2xx response hands that response
\* to the host, whether or not the write into the dynamic generation (opening
\* the generation, the put) failed
C17_WriteFailureNotEscalated ==
    (fpc = "settled" /\ Is2xx(netResponse)) =>
        /\ execOut.kind = "response" /\ execOut.response = netResponse
        /\ out = execOut

-----------------------------------------------------------------------------
(* Claims on the order of pruning and claiming (specification Spec) *)

\* C18, as stated: clients are claimed only after pruning has finished, so
\* that when they are claimed no stale application generation exists
C18_ClaimAfterPrune ==
    claimState = "done" =>
        /\ apc = "pruned"
        /\ AppGenerations(caches) \subseteq CurrentGenerations

\* C18, amended: the claim of clients is requested when the activate handler
\* starts, together with the enumeration that pruning begins with, and
\* settles on its own; the handler completes without error only when pruning
\* has finished and the claim is done, and then none of the stale generations
\* it enumerated exists
C18_ClaimConcurrentWithPrune ==
    /\ apc = "idle" <=> claimState = "none"
    /\ actResult = "then" =>
          /\ apc = "pruned" /\ claimState = "done"
          /\ actNames \cap Names(caches) = {}

\* C18: the clients are claimed while pruning is still enumerating and a stale
\* generation exists
C18_Witness ==
    /\ claimState = "done" /\ apc = "keys" /\ actResult = "none"
    /\ OLD_STATIC \in Names(caches)

-----------------------------------------------------------------------------
(* The periodic sweep alone, on an active worker restarted over every set   *)
(* of the application's generation names                                    *)

\* Timer ticks the host delivers
MaxSweeps == 2

RECURSIVE SubSeqs(_)
SubSeqs(s) ==
    IF s = <<>> THEN { <<>> }
    ELSE LET rest == SubSeqs(Tail(s)) IN rest \cup { <<Head(s)>> \o t : t \in rest }

SweepStores ==
    { <<ForeignStore>> \o gs :
        gs \in SubSeqs(<<OldStaticStore, OldUntaggedStore, SeededStatic,
                         [name |-> DYNAMIC_CACHE,
                          entries |-> <<Entry(MainDocument, Response(200, "network", 1))>>]>>) }

InitSweep ==
    /\ caches \in SweepStores
    /\ phase = "activated" /\ installResult = "fulfilled" /\ installLog = "then"
    /\ skipWaiting = TRUE
    /\ apc = "pruned" /\ actNames = {} /\ claimState = "done" /\ actResult = "then"
    /\ IdleHandlers
    /\ budget = MaxSweeps

NextSweep ==
    \/ SweepTick
    \/ \E ok \in BOOLEAN : CleanupKeys(ok)
    \/ \E name \in cleanupPending : \E ok \in BOOLEAN : CleanupDeleted(name, ok)
    \/ \E ok \in BOOLEAN : StatsKeys(ok)
    \/ \E ok \in BOOLEAN : StatsOpened(ok)
    \/ \E ok \in BOOLEAN : StatsCounted(ok)
    \/ SweepSettled

SpecSweep == InitSweep /\ [][NextSweep]_vars

\* cleanupCaches has run to line 424 with no call rejected
Swept == cpc = "settled" /\ cleanupResult = "done"

Tagged(name) == Includes(name, VERSION_TAG)

\* C19, as stated, for a sweep during which getCacheStats has opened nothing:
\* after cleanupCaches every remaining application-prefixed generation is the
\* static or the dynamic one, as after the pruning of activate
C19_SweepLeavesOnlyCurrent ==
    (Swept /\ gpc \in {"keys", "settled"} /\ stats = {}) =>
        AppGenerations(caches) \subseteq CurrentGenerations

\* C19, amended: no step of the sweep deletes a generation whose name carries
\* the version tag (the static and the dynamic one among them) or lacks the
\* application prefix, and none changes an entry; after cleanupCaches every
\* remaining application-prefixed generation carries the version tag, or is a
\* generation cleanupCaches deleted that getCacheStats has created again, empty
C19_SweepDeletesUntagged ==
    [][ /\ \A n \in Names(caches) \ Names(caches') :
              StartsWith(n, APP_PREFIX) /\ ~Tagged(n)
        /\ \A n \in Names(caches) \cap Names(caches') :
              Entries(caches', n) = Entries(caches, n)
        /\ Swept' =>
              \A n \in AppGenerations(caches') :
                 \/ Tagged(n)
                 \/ /\ n \in oldCaches'
                    /\ Entries(caches', n) = <<>>
                    /\ gpc \notin {"idle", "keys"} ]_vars

\* C19: cleanupCaches has deleted the stale static generation; the generation
\* named CACHE_NAME, which pruning would delete, remains with the two current
\* ones
C19_Witness ==
    /\ Swept /\ oldCaches = {OLD_STATIC}
    /\ AppGenerations(caches) = {CACHE_NAME, STATIC_CACHE, DYNAMIC_CACHE}
    /\ Entries(caches, STATIC_CACHE) = SeededStatic.entries

-----------------------------------------------------------------------------
(* Background synchronisation while a fetch is handled: an active worker    *)
(* whose dynamic generation holds MAX_DYNAMIC_ENTRIES + 1 entries           *)

\* The request of the first entry of the dynamic generation (network-first)
R_oldest == [url |-> DataURL(1), method |-> "GET", mode |-> "navigate"]

EvictRequests == {R_oldest, R_about}

InitEvictFetch ==
    /\ caches = <<ForeignStore, SeededStatic, FilledDynamic(MAX_DYNAMIC_ENTRIES + 1, 0)>>
    /\ phase = "activated" /\ installResult = "fulfilled" /\ installLog = "then"
    /\ skipWaiting = TRUE
    /\ apc = "pruned" /\ actNames = {} /\ claimState = "done" /\ actResult = "then"
    /\ IdleHandlers
    /\ budget = MaxEvents

NextEvictFetch ==
    \/ SyncEvent
    \/ \E ok \in BOOLEAN : SyncOpened(ok)
    \/ \E ok \in BOOLEAN : SyncEnumerated(ok)
    \/ \E rejected \in SUBSET Range(OldestRequests(syncKeys)) : SyncDeleted(rejected)
    \/ \E net \in NetworkOutcomes : \E stored \in BOOLEAN : SyncAdded(net, stored)
    \/ SyncSettled
    \/ \E r \in EvictRequests : FetchEvent(r)
    \/ \E ok \in BOOLEAN : CacheFirstMatched(ok)
    \/ \E net \in NetworkOutcomes : CacheFirstFetched(net)
    \/ \E ok \in BOOLEAN : CacheFirstOpened(ok)
    \/ \E ok \in BOOLEAN : CacheFirstFallback(ok)
    \/ \E net \in NetworkOutcomes : NetworkFirstFetched(net)
    \/ \E ok \in BOOLEAN : NetworkFirstOpened(ok)
    \/ \E ok \in BOOLEAN : NetworkFirstMatched(ok)
    \/ \E ok \in BOOLEAN : DispatcherFallback(ok)
    \/ FetchSettled
    \/ \E p \in pendingPuts : \E ok \in BOOLEAN : PutSettles(p, ok)

SpecEvictFetch == InitEvictFetch /\ [][NextEvictFetch]_vars

\* The deletions of line 254 settle
DeletionsSettle == spc = "deleting" /\ spc' # "deleting"

\* The requests of the enumeration that line 253 selects
OldestPart == {syncKeys[i] : i \in 1..(Len(syncKeys) - 50)}

DynamicEntries == Entries(caches, DYNAMIC_CACHE)

\* C20, as stated: an entry written into the dynamic generation after the
\* enumeration and before the deletions (after a put the generation differs
\* from the enumeration and the entry written is its last) is still there
\* when the deletions have run
C20_LaterWritesSurvive ==
    [][ (DeletionsSettle /\ DynamicKeys # syncKeys /\ DynamicEntries # <<>>)
        => StoredInDynamic(caches', DynamicEntries[Len(DynamicEntries)].url)
             = DynamicEntries[Len(DynamicEntries)].response ]_vars

\* C20, amended: the deletions are by request: every entry whose request is
\* not among the oldest requests of the enumeration is still there, in the
\* same order, whenever it was written; when every deletion succeeded, no
\* entry for an oldest request of the enumeration is left, the one an
\* executor wrote for that request after the enumeration included
C20_DeletesByRequest ==
    [][ DeletionsSettle =>
          /\ \A i \in 1..Len(DynamicEntries) :
                DynamicEntries[i].url \notin OldestPart
                => StoredInDynamic(caches', DynamicEntries[i].url)
                     = DynamicEntries[i].response
          /\ DynamicEntries' =
                SelectSeq(DynamicEntries, LAMBDA e : e \in Range(DynamicEntries'))
          /\ spc' = "add" =>
                \A u \in OldestPart : StoredInDynamic(caches', u) = undefined ]_vars

\* C20: the deletions are issued for the enumeration, whose oldest request is
\* the one a network-first handler has since fetched again; its put has
\* settled, so the entry of that request is now the last of the generation
C20_Witness ==
    /\ spc = "deleting" /\ OldestPart = {R_oldest.url}
    /\ request = R_oldest /\ fpc = "settled" /\ io.writes = 1 /\ pendingPuts = {}
    /\ DynamicKeys # syncKeys
    /\ DynamicEntries[Len(DynamicEntries)] = Entry(R_oldest.url, netResponse)

====
